---- MODULE Spec2Model ----
(***************************************************************************)
(* DocxCheck backend (src/server.js): phone/OTP login, JWT session check,  *)
(* the three AI analysis routes and the per-user history ledger.           *)
(*                                                                         *)
(* Time is in milliseconds (Date.now()).  Every `await` of a handler is a  *)
(* scheduling point, so a handler is one action per segment between its    *)
(* awaits; the store operation an await waits for is applied atomically by *)
(* MongoDB on the single document it addresses.                            *)
(***************************************************************************)
EXTENDS Integers, Sequences, FiniteSets, TLC

\* ---------------------------------------------------------------- bounds
StartTime == 1
MaxTicks == 1
MaxSends == 2
MaxVerifies == 2
MaxApi == 1
MaxLedger == 3

\* ------------------------------------------------------ program constants
OtpTtlMs == 600000
JwtTtlSec == 604800
MsPerSec == 1000
JwtTtlMs == JwtTtlSec * MsPerSec

\* ------------------------------------------------------------ value sets
Null == "null"
Undefined == "undefined"
Phones == {"p1", "p2"}
SendPhones == {"p1", Undefined}
Codes == {"111111", "222222"}
NullDate == -1
Unset == "unset"
Secrets == {Unset, "s3cret"}
SendReqs == {"s1", "s2"}
VerReqs == {"v1", "v2"}
TickSteps == {OtpTtlMs, OtpTtlMs + 1}

NoUser == [exists |-> FALSE, id |-> 0, phone |-> "", otp |-> Null, otpExpires |-> NullDate]
NoToken == [kind |-> "none", id |-> 0, phone |-> "", iat |-> 0, exp |-> 0, key |-> ""]
Garbage == [kind |-> "garbage", id |-> 0, phone |-> "", iat |-> 0, exp |-> 0, key |-> ""]

\* the most recent reply of verify-otp: the code that was submitted, what was
\* answered, and which issued challenge (numbered by applied upsert) the
\* request had read
NoReply == [otp |-> Null, status |-> 0, error |-> "", token |-> NoToken, chal |-> 0]
Reply(otp, status, error, token, chal) ==
    [otp |-> otp, status |-> status, error |-> error, token |-> token, chal |-> chal]

VARIABLES now, ticks, jwtSecret, users, nextId, send, ver, tokens, last,
          sendCount, verCount, upserts, chalNo, lastPair, earlierCodes, granted,
          history, api, apiCount, apiLast

authVars == <<jwtSecret, users, nextId, send, ver, tokens, last,
              sendCount, verCount, upserts, chalNo, lastPair, earlierCodes, granted>>
apiVars == <<history, api, apiCount, apiLast>>
vars == <<now, ticks, authVars, apiVars>>

\* ------------------------------------------------------- pure functions
\* Date comparison `a < b` converts both sides to numbers; null becomes 0.
ToNumber(d) == IF d = NullDate THEN 0 ELSE d

\* line 137: user.otpExpires < new Date()
OtpExpired(otpExpires, t) == ToNumber(otpExpires) < t

\* line 136: user.otp !== otp
OtpMismatch(stored, submitted) == stored # submitted

\* line 144: process.env.JWT_SECRET || 'fallback_secret_key'
SignSecret(env) == IF env = Unset THEN "fallback_secret_key" ELSE env

\* jwt.sign(payload, key, {expiresIn:'7d'}): iat and exp are whole seconds
jwtSign(user, key, t) ==
    [kind |-> "jwt", id |-> user.id, phone |-> user.phone,
     iat |-> t \div MsPerSec, exp |-> (t \div MsPerSec) + JwtTtlSec, key |-> key]

\* jwt.verify that does not look at exp
jwtVerifyNoExpiry(token, env, t) ==
    /\ env # Unset
    /\ token.kind = "jwt"
    /\ token.key = env

\* jwt.verify(token, process.env.JWT_SECRET): TRUE when it returns the payload,
\* FALSE when it throws (no key, malformed, bad signature, expired)
jwtVerify(token, env, t) ==
    /\ env # Unset
    /\ token.kind = "jwt"
    /\ token.key = env
    /\ ~ (t \div MsPerSec >= token.exp)

\* an upsert that replaces the code of an existing Identity but not its expiry
UpsertTorn(store, phone, otp, otpExpires, newId) ==
    [store EXCEPT ![phone] =
        IF store[phone].exists
        THEN [store[phone] EXCEPT !.otp = otp]
        ELSE [exists |-> TRUE, id |-> newId, phone |-> phone,
              otp |-> otp, otpExpires |-> otpExpires]]

\* lines 104-108: User.findOneAndUpdate({phone}, {otp, otpExpires}, {upsert:true});
\* one atomic single-document write that creates the Identity when absent
Upsert(store, phone, otp, otpExpires, newId) ==
    [store EXCEPT ![phone] =
        IF store[phone].exists
        THEN [store[phone] EXCEPT !.otp = otp, !.otpExpires = otpExpires]
        ELSE [exists |-> TRUE, id |-> newId, phone |-> phone,
              otp |-> otp, otpExpires |-> otpExpires]]

\* a save() that persists nothing
ClearNothing(store, phone) == store

\* lines 140-142: user.otp = null; user.otpExpires = null; await user.save();
\* save() sends the two modified paths as one $set on the document
ClearChallenge(store, phone) ==
    [store EXCEPT ![phone].otp = Null, ![phone].otpExpires = NullDate]

IdleSend == [pc |-> "idle", phone |-> "", otp |-> Null, otpExpires |-> NullDate]
IdleVer == [pc |-> "idle", phone |-> "", otp |-> Null, user |-> NoUser, chal |-> 0]

\* requests in flight are anonymous: a new one takes the lowest free slot
FreeSend(r) == send[r].pc = "idle" /\ (r = "s2" => send["s1"].pc # "idle")
FreeVer(r) == ver[r].pc = "idle" /\ (r = "v2" => ver["v1"].pc # "idle")

\* ------------------------------------------------------------ API values
Routes == {"analyze", "webscan", "summarize", "history"}
NoEntry == [userId |-> 0, type |-> "", docs |-> "", score |-> "", details |-> "",
            verdict |-> "", createdAt |-> 0]
NoOut == [kind |-> "none", hasScore |-> FALSE, score |-> 0, others |-> FALSE,
          hasSources |-> FALSE, sources |-> <<>>]
IdleApi == [pc |-> "idle", route |-> "", tok |-> NoToken, authAt |-> 0, user |-> 0,
            refSide |-> FALSE, tgtSide |-> FALSE, docs |-> "", out |-> NoOut,
            entry |-> NoEntry, called |-> FALSE, wrote |-> FALSE, read |-> FALSE]
NoApiReply == [status |-> 0, error |-> "", req |-> IdleApi, list |-> <<>>]

Init ==
    /\ now = StartTime
    /\ ticks = 0
    /\ jwtSecret \in Secrets
    /\ users = [p \in Phones |-> NoUser]
    /\ nextId = 1
    /\ send = [r \in SendReqs |-> IdleSend]
    /\ ver = [r \in VerReqs |-> IdleVer]
    /\ tokens = {}
    /\ last = NoReply
    /\ sendCount = 0
    /\ verCount = 0
    /\ upserts = 0
    /\ chalNo = [p \in Phones |-> 0]
    /\ lastPair = [p \in Phones |-> [otp |-> Null, otpExpires |-> NullDate]]
    /\ earlierCodes = [p \in Phones |-> {}]
    /\ granted = [k \in 0..MaxSends |-> 0]
    /\ history = <<>>
    /\ api = IdleApi
    /\ apiCount = 0
    /\ apiLast = NoApiReply

\* ------------------------------------------------------------ auth routes
\* the clock advances between any two steps
Tick(d) ==
    /\ ticks < MaxTicks
    /\ now' = now + d
    /\ ticks' = ticks + 1
    /\ UNCHANGED <<authVars, apiVars>>

\* POST /api/auth/send-otp, lines 95-104: validate phone, draw the code,
\* compute the expiry, start the upsert
SendOtp(r, phone, code) ==
    /\ FreeSend(r)
    /\ sendCount < MaxSends
    /\ sendCount' = sendCount + 1
    /\ IF phone = Undefined
       THEN UNCHANGED send
       ELSE send' = [send EXCEPT ![r] = [pc |-> "upsert", phone |-> phone, otp |-> code,
                                         otpExpires |-> now + OtpTtlMs]]
    /\ UNCHANGED <<now, ticks, jwtSecret, users, nextId, ver, tokens, last, verCount,
                   upserts, chalNo, lastPair, earlierCodes, granted, apiVars>>

\* lines 104-126: the store applies the upsert (or rejects it), then the reply
SendUpsert(r, ok) ==
    /\ send[r].pc = "upsert"
    /\ send' = [send EXCEPT ![r] = IdleSend]
    /\ LET p == send[r].phone IN
       IF ok
       THEN /\ users' = Upsert(users, p, send[r].otp, send[r].otpExpires, nextId)
            /\ nextId' = IF users[p].exists THEN nextId ELSE nextId + 1
            /\ upserts' = upserts + 1
            /\ chalNo' = [chalNo EXCEPT ![p] = upserts + 1]
            /\ earlierCodes' = [earlierCodes EXCEPT ![p] =
                    IF chalNo[p] = 0 THEN {} ELSE @ \cup {lastPair[p].otp}]
            /\ lastPair' = [lastPair EXCEPT ![p] =
                    [otp |-> send[r].otp, otpExpires |-> send[r].otpExpires]]
       ELSE UNCHANGED <<users, nextId, upserts, chalNo, earlierCodes, lastPair>>
    /\ UNCHANGED <<now, ticks, jwtSecret, ver, tokens, last, sendCount, verCount, granted,
                   apiVars>>

\* POST /api/auth/verify-otp, lines 130-134: the store answers findOne
VerifyOtp(r, phone, otp) ==
    /\ FreeVer(r)
    /\ verCount < MaxVerifies
    /\ verCount' = verCount + 1
    /\ ver' = [ver EXCEPT ![r] = [pc |-> "found", phone |-> phone, otp |-> otp,
                                  user |-> users[phone], chal |-> chalNo[phone]]]
    /\ UNCHANGED <<now, ticks, jwtSecret, users, nextId, send, tokens, last, sendCount,
                   upserts, chalNo, lastPair, earlierCodes, granted, apiVars>>

VerReply(r, status, error, token) ==
    Reply(ver[r].otp, status, error, token, ver[r].chal)

\* the three checks, with a failed attempt burning the stored challenge
VerifyCheckBurning(r) ==
    /\ ver[r].pc = "found"
    /\ LET u == ver[r].user IN
       IF ~ u.exists
       THEN /\ last' = VerReply(r, 404, "User not found", NoToken)
            /\ ver' = [ver EXCEPT ![r] = IdleVer]
            /\ UNCHANGED users
       ELSE IF OtpMismatch(u.otp, ver[r].otp)
       THEN /\ last' = VerReply(r, 400, "Invalid OTP", NoToken)
            /\ ver' = [ver EXCEPT ![r] = IdleVer]
            /\ users' = ClearChallenge(users, ver[r].phone)
       ELSE IF OtpExpired(u.otpExpires, now)
       THEN /\ last' = VerReply(r, 400, "OTP expired", NoToken)
            /\ ver' = [ver EXCEPT ![r] = IdleVer]
            /\ UNCHANGED users
       ELSE /\ ver' = [ver EXCEPT ![r].pc = "saving"]
            /\ UNCHANGED <<last, users>>
    /\ UNCHANGED <<now, ticks, jwtSecret, nextId, send, tokens, sendCount, verCount,
                   upserts, chalNo, lastPair, earlierCodes, granted, apiVars>>

\* lines 135-142: the three checks on the loaded document, then start save()
VerifyCheck(r) ==
    /\ ver[r].pc = "found"
    /\ LET u == ver[r].user IN
       IF ~ u.exists
       THEN /\ last' = VerReply(r, 404, "User not found", NoToken)
            /\ ver' = [ver EXCEPT ![r] = IdleVer]
       ELSE IF OtpMismatch(u.otp, ver[r].otp)
       THEN /\ last' = VerReply(r, 400, "Invalid OTP", NoToken)
            /\ ver' = [ver EXCEPT ![r] = IdleVer]
       ELSE IF OtpExpired(u.otpExpires, now)
       THEN /\ last' = VerReply(r, 400, "OTP expired", NoToken)
            /\ ver' = [ver EXCEPT ![r] = IdleVer]
       ELSE /\ ver' = [ver EXCEPT ![r].pc = "saving"]
            /\ UNCHANGED last
    /\ UNCHANGED <<now, ticks, jwtSecret, users, nextId, send, tokens, sendCount, verCount,
                   upserts, chalNo, lastPair, earlierCodes, granted, apiVars>>

\* line 142: the store applies save() (or rejects it: line 147)
VerifySave(r, ok) ==
    /\ ver[r].pc = "saving"
    /\ IF ok
       THEN /\ users' = ClearChallenge(users, ver[r].phone)
            /\ ver' = [ver EXCEPT ![r].pc = "saved"]
            /\ UNCHANGED last
       ELSE /\ last' = VerReply(r, 500, "Verification failed", NoToken)
            /\ ver' = [ver EXCEPT ![r] = IdleVer]
            /\ UNCHANGED users
    /\ UNCHANGED <<now, ticks, jwtSecret, nextId, send, tokens, sendCount, verCount,
                   upserts, chalNo, lastPair, earlierCodes, granted, apiVars>>

\* lines 144-145: sign the session token and reply with it
VerifySign(r) ==
    /\ ver[r].pc = "saved"
    /\ LET token == jwtSign(ver[r].user, SignSecret(jwtSecret), now) IN
         /\ last' = VerReply(r, 200, "", token)
         /\ tokens' = tokens \cup {token}
    /\ ver' = [ver EXCEPT ![r] = IdleVer]
    /\ granted' = [granted EXCEPT ![ver[r].chal] = @ + 1]
    /\ UNCHANGED <<now, ticks, jwtSecret, users, nextId, send, sendCount, verCount,
                   upserts, chalNo, lastPair, earlierCodes, apiVars>>

Next ==
    \/ \E d \in TickSteps : Tick(d)
    \/ \E r \in SendReqs, p \in SendPhones, c \in Codes : SendOtp(r, p, c)
    \/ \E r \in SendReqs, ok \in BOOLEAN : SendUpsert(r, ok)
    \/ \E r \in VerReqs, p \in Phones, c \in Codes \cup {Null, Undefined} : VerifyOtp(r, p, c)
    \/ \E r \in VerReqs : VerifyCheck(r)
    \/ \E r \in VerReqs, ok \in BOOLEAN : VerifySave(r, ok)
    \/ \E r \in VerReqs : VerifySign(r)

Spec == Init /\ [][Next]_vars

\* ----------------------------------------------------- protected routes
\* lines 67-78: 0 when next() is called, else the status of the rejection
authMiddleware(token, env, t) ==
    IF token = NoToken THEN 401
    ELSE IF jwtVerify(token, env, t) THEN 0
    ELSE 400

AuthError(status) ==
    IF status = 401 THEN "Access denied. No token provided." ELSE "Invalid token."

\* lines 191, 225, 254, 266: the catch block of each route
RouteError(route) ==
    CASE route = "analyze" -> "Similarity analysis failed"
      [] route = "webscan" -> "Web scan failed"
      [] route = "summarize" -> "Summarization failed"
      [] OTHER -> "Failed to fetch history"

\* line 178: docNames
DocNames(refFile, tgtFile) ==
    CASE refFile /\ tgtFile -> "ref.docx -> tgt.docx"
      [] refFile /\ ~ tgtFile -> "ref.docx -> Text"
      [] ~ refFile /\ tgtFile -> "Text -> tgt.docx"
      [] OTHER -> "Text -> Text"

\* lines 216, 245: req.file ? req.file.originalname : 'Document'
DocName(file) == IF file THEN "doc.pdf" ELSE "Document"

\* lines 175-186, 211-220, 240-249: TRUE when the code between the model call
\* and History.create throws (rejected call, JSON.parse, property of undefined)
Throws(route, out) ==
    \/ out.kind \in {"error", "nonjson"}
    \/ route = "analyze" /\ ~ out.hasScore
    \/ route = "webscan" /\ ~ out.hasSources

\* the thresholds of line 185 taken as strict
SimilarityVerdictStrict(score) ==
    IF score > 80 THEN "High" ELSE IF score > 50 THEN "Moderate" ELSE "Low"

\* line 185
SimilarityVerdict(score) ==
    IF score >= 80 THEN "High" ELSE IF score >= 50 THEN "Moderate" ELSE "Low"

\* line 217: sources[0]?.score?.toString() || '0'
WebScore(sources) ==
    IF Len(sources) > 0 /\ sources[1].hasScore THEN ToString(sources[1].score) ELSE "0"

\* the threshold of line 219 taken as strict
WebVerdictStrict(sources) ==
    IF Len(sources) > 0 /\ sources[1].hasScore /\ sources[1].score > 80
    THEN "High Risk" ELSE "Pass"

\* line 219: undefined >= 80 is false
WebVerdict(sources) ==
    IF Len(sources) > 0 /\ sources[1].hasScore /\ sources[1].score >= 80
    THEN "High Risk" ELSE "Pass"

\* lines 179-186, 213-220, 242-249: the document handed to History.create;
\* createdAt is the schema default Date.now, taken when it is constructed
BuildEntry(route, user, docs, out, t) ==
    CASE route = "analyze" ->
           [userId |-> user, type |-> "Similarity Check", docs |-> docs,
            score |-> ToString(out.score), details |-> "en <-> en",
            verdict |-> SimilarityVerdict(out.score), createdAt |-> t]
      [] route = "webscan" ->
           [userId |-> user, type |-> "Web Scan", docs |-> docs,
            score |-> WebScore(out.sources),
            details |-> ToString(Len(out.sources)) \o " sources found",
            verdict |-> WebVerdict(out.sources), createdAt |-> t]
      [] OTHER ->
           [userId |-> user, type |-> "AI Summary", docs |-> docs,
            score |-> "-", details |-> "Summarized", verdict |-> "Done", createdAt |-> t]

\* the most recent reply of a protected route, with what the request did; the
\* entry it wrote is in history and is not repeated here
ApiReply(status, error, req, list) ==
    [status |-> status, error |-> error, list |-> list,
     req |-> [req EXCEPT !.pc = "idle", !.docs = "", !.entry = NoEntry]]

\* lines 156-174, 196-209, 230-239: authMiddleware, the upload middleware, the
\* handler up to the model call.  `multipart` is whether multer parsed a
\* multipart body: when it did not, req.files is undefined and line 162 throws
ApiStart(route, tok, multipart, refFile, tgtFile, refText, tgtText) ==
    /\ api.pc = "idle"
    /\ route \in {"analyze", "webscan", "summarize"}
    /\ ~ multipart => ~ refFile /\ ~ tgtFile
    /\ route # "analyze" => ~ tgtFile /\ ~ refText /\ ~ tgtText
    /\ apiCount' = apiCount + 1
    /\ LET st == authMiddleware(tok, jwtSecret, now)
           req == [IdleApi EXCEPT !.route = route, !.tok = tok, !.authAt = now]
       IN IF st # 0
          THEN /\ apiLast' = ApiReply(st, AuthError(st), req, <<>>)
               /\ UNCHANGED api
          ELSE IF route = "analyze" /\ ~ multipart
          THEN /\ apiLast' = ApiReply(500, RouteError(route), [req EXCEPT !.user = tok.id], <<>>)
               /\ UNCHANGED api
          ELSE /\ api' = [req EXCEPT !.pc = "model", !.user = tok.id, !.called = TRUE,
                            !.refSide = refFile \/ refText, !.tgtSide = tgtFile \/ tgtText,
                            !.docs = IF route = "analyze" THEN DocNames(refFile, tgtFile)
                                     ELSE DocName(refFile)]
               /\ UNCHANGED apiLast
    /\ UNCHANGED <<now, ticks, authVars, history>>

\* lines 174-186 (211-220, 239-249): the model call settles; parse the text,
\* build the entry and start History.create
ApiModelReturn(out) ==
    /\ api.pc = "model"
    /\ IF Throws(api.route, out)
       THEN /\ apiLast' = ApiReply(500, RouteError(api.route), [api EXCEPT !.out = out], <<>>)
            /\ api' = IdleApi
       ELSE /\ api' = [api EXCEPT !.pc = "create", !.out = out,
                         !.entry = BuildEntry(api.route, api.user, api.docs, out, now)]
            /\ UNCHANGED apiLast
    /\ UNCHANGED <<now, ticks, authVars, history, apiCount>>

\* History.create started but not awaited: the handler goes on to the reply
ApiCreateUnawaited(ok) ==
    /\ api.pc = "create"
    /\ api' = [api EXCEPT !.pc = "reply", !.wrote = TRUE]
    /\ UNCHANGED <<now, ticks, authVars, history, apiLast, apiCount>>

\* a History.create that replaces the collection by the new entry
ApiCreateReplacing(ok) ==
    /\ api.pc = "create"
    /\ IF ok
       THEN /\ history' = <<api.entry>>
            /\ api' = [api EXCEPT !.pc = "reply", !.wrote = TRUE]
            /\ UNCHANGED apiLast
       ELSE /\ apiLast' = ApiReply(500, RouteError(api.route), api, <<>>)
            /\ api' = IdleApi
            /\ UNCHANGED history
    /\ UNCHANGED <<now, ticks, authVars, apiCount>>

\* lines 179, 213, 242: the store applies History.create (or rejects it)
ApiCreate(ok) ==
    /\ api.pc = "create"
    /\ IF ok
       THEN /\ history' = Append(history, api.entry)
            /\ api' = [api EXCEPT !.pc = "reply", !.wrote = TRUE]
            /\ UNCHANGED apiLast
       ELSE /\ apiLast' = ApiReply(500, RouteError(api.route), api, <<>>)
            /\ api' = IdleApi
            /\ UNCHANGED history
    /\ UNCHANGED <<now, ticks, authVars, apiCount>>

\* lines 188, 222, 251: res.json(result)
ApiRespond ==
    /\ api.pc = "reply"
    /\ apiLast' = ApiReply(200, "", api, <<>>)
    /\ api' = IdleApi
    /\ UNCHANGED <<now, ticks, authVars, history, apiCount>>

\* the orders .sort({createdAt: -1}) may return: the owner's entries, newest
\* first, entries of equal createdAt in either order
\* a find without the userId filter
OwnedByAnyone(h, user) == h

RECURSIVE Owned(_, _)
Owned(h, user) ==
    IF h = <<>> THEN <<>>
    ELSE IF Head(h).userId = user THEN <<Head(h)>> \o Owned(Tail(h), user)
    ELSE Owned(Tail(h), user)

Sorted(h, user) ==
    LET own == Owned(h, user)
        n == Len(own)
    IN { [i \in 1..n |-> own[f[i]]] :
           f \in { g \in [1..n -> 1..n] :
                     /\ \A i, j \in 1..n : i # j => g[i] # g[j]
                     /\ \A i, j \in 1..n : i < j => own[g[i]].createdAt >= own[g[j]].createdAt } }

\* GET /api/history, lines 261-263: authMiddleware, start History.find
ApiHistory(tok) ==
    /\ api.pc = "idle"
    /\ apiCount' = apiCount + 1
    /\ LET st == authMiddleware(tok, jwtSecret, now)
           req == [IdleApi EXCEPT !.route = "history", !.tok = tok, !.authAt = now]
       IN IF st # 0
          THEN /\ apiLast' = ApiReply(st, AuthError(st), req, <<>>)
               /\ UNCHANGED api
          ELSE /\ api' = [req EXCEPT !.pc = "find", !.user = tok.id]
               /\ UNCHANGED apiLast
    /\ UNCHANGED <<now, ticks, authVars, history>>

\* lines 263-266: the store answers the query (or fails), then the reply
ApiFind(ok) ==
    /\ api.pc = "find"
    /\ IF ok
       THEN \E list \in Sorted(history, api.user) :
               apiLast' = ApiReply(200, "", [api EXCEPT !.read = TRUE], list)
       ELSE apiLast' = ApiReply(500, RouteError("history"), api, <<>>)
    /\ api' = IdleApi
    /\ UNCHANGED <<now, ticks, authVars, history, apiCount>>

\* ------------------------------------------------------ inputs of the API
Scores == {49, 50, 79, 80}
Source(has, score) == [hasScore |-> has, score |-> score]
SourceVals == {Source(FALSE, 0)} \cup {Source(TRUE, sc) : sc \in {79, 80}}
SourceLists == {<<>>} \cup {<<a>> : a \in SourceVals} \cup {<<Source(TRUE, 79), Source(TRUE, 80)>>}
Failed(kind) == [NoOut EXCEPT !.kind = kind]
Json == [NoOut EXCEPT !.kind = "json"]
\* what the model call can produce for a route: a rejected call, text that is
\* not JSON, or JSON with or without each field the handler reads
Outputs(route) ==
    {Failed("error"), Failed("nonjson")} \cup
    CASE route = "analyze" ->
           {Json, [Json EXCEPT !.hasScore = TRUE, !.score = 80]} \cup
           {[Json EXCEPT !.hasScore = TRUE, !.score = sc, !.others = TRUE] : sc \in Scores}
      [] route = "webscan" ->
           {Json} \cup {[Json EXCEPT !.hasSources = TRUE, !.sources = l] : l \in SourceLists}
      [] OTHER -> {[Json EXCEPT !.others = o] : o \in BOOLEAN}

\* request bodies: multipart or not, which files and which text fields came
Body(mp, rf, tf, rt, tt) ==
    [multipart |-> mp, refFile |-> rf, tgtFile |-> tf, refText |-> rt, tgtText |-> tt]
Bodies(route) ==
    IF route = "analyze"
    THEN {Body(TRUE, TRUE, TRUE, FALSE, FALSE), Body(TRUE, FALSE, FALSE, TRUE, TRUE),
          Body(TRUE, TRUE, FALSE, FALSE, TRUE), Body(TRUE, FALSE, FALSE, FALSE, TRUE),
          Body(TRUE, FALSE, FALSE, FALSE, FALSE), Body(FALSE, FALSE, FALSE, TRUE, TRUE)}
    ELSE {Body(TRUE, TRUE, FALSE, FALSE, FALSE), Body(TRUE, FALSE, FALSE, FALSE, FALSE)}

Forged == [kind |-> "jwt", id |-> 1, phone |-> "p1", iat |-> 0, exp |-> 2 * JwtTtlSec,
           key |-> "attacker"]
ApiTickSteps == {JwtTtlMs - MsPerSec, JwtTtlMs - 1, JwtTtlMs}

\* the service after both phones have logged in at StartTime: two Identities
\* with consumed challenges, each holding the token verify-otp signed for it
LoggedIn(p, id) == [exists |-> TRUE, id |-> id, phone |-> p, otp |-> Null,
                    otpExpires |-> NullDate]
InitApi ==
    /\ now = StartTime
    /\ ticks = 0
    /\ jwtSecret \in Secrets
    /\ users = [p \in Phones |-> LoggedIn(p, IF p = "p1" THEN 1 ELSE 2)]
    /\ nextId = 3
    /\ send = [r \in SendReqs |-> IdleSend]
    /\ ver = [r \in VerReqs |-> IdleVer]
    /\ tokens = {jwtSign(users[p], SignSecret(jwtSecret), StartTime) : p \in Phones}
    /\ last = NoReply
    /\ sendCount = 0
    /\ verCount = 0
    /\ upserts = 0
    /\ chalNo = [p \in Phones |-> 0]
    /\ lastPair = [p \in Phones |-> [otp |-> Null, otpExpires |-> NullDate]]
    /\ earlierCodes = [p \in Phones |-> {}]
    /\ granted = [k \in 0..MaxSends |-> 0]
    /\ history = <<>>
    /\ api = IdleApi
    /\ apiCount = 0
    /\ apiLast = NoApiReply

NextApi ==
    \/ \E d \in ApiTickSteps : Tick(d)
    \/ /\ apiCount < MaxApi
       /\ \E route \in Routes \ {"history"}, tok \in tokens \cup {NoToken, Garbage, Forged} :
             \E b \in Bodies(route) :
                ApiStart(route, tok, b.multipart, b.refFile, b.tgtFile, b.refText, b.tgtText)
    \/ \E out \in Outputs(api.route) : ApiModelReturn(out)
    \/ \E ok \in BOOLEAN : ApiCreate(ok)
    \/ ApiRespond
    \/ /\ apiCount < MaxApi
       /\ \E tok \in tokens \cup {NoToken, Garbage, Forged} : ApiHistory(tok)
    \/ \E ok \in BOOLEAN : ApiFind(ok)

SpecApi == InitApi /\ [][NextApi]_vars

\* --------------------------------------------------------- the ledger
\* several analyses of the two logged-in Identities, then reads of the ledger:
\* a secret is configured, every request carries a valid token and a file, and
\* the model call either fails or returns well-formed output
LedgerOutputs(route) ==
    {Failed("error"),
     CASE route = "analyze" -> [Json EXCEPT !.hasScore = TRUE, !.score = 80, !.others = TRUE]
       [] route = "webscan" -> [Json EXCEPT !.hasSources = TRUE, !.sources = <<Source(TRUE, 80)>>]
       [] OTHER -> [Json EXCEPT !.others = TRUE]}

InitLedger == InitApi /\ jwtSecret # Unset

NextLedger ==
    \/ Tick(MsPerSec)
    \/ /\ apiCount < MaxLedger
       /\ \E route \in Routes \ {"history"}, tok \in tokens :
             ApiStart(route, tok, TRUE, TRUE, route = "analyze", FALSE, FALSE)
    \/ \E out \in LedgerOutputs(api.route) : ApiModelReturn(out)
    \/ \E ok \in BOOLEAN : ApiCreate(ok)
    \/ ApiRespond
    \/ /\ apiCount < MaxLedger
       /\ \E tok \in tokens : ApiHistory(tok)
    \/ \E ok \in BOOLEAN : ApiFind(ok)

SpecLedger == InitLedger /\ [][NextLedger]_vars

\* =================================================================
\* Properties
\* =================================================================

\* lines 135-137 on the stored document: would verify-otp accept code c now
Verifies(u, c, t) == u.exists /\ ~ OtpMismatch(u.otp, c) /\ ~ OtpExpired(u.otpExpires, t)

\* the verify-otp request in slot r runs its checks (lines 135-142) in this step
Checks(r) == ver[r].pc = "found" /\ ver'[r].pc # "found"

\* C1 (consumption): a code issued by send-otp verifies once; every further
\* verify-otp carrying it, with no send-otp in between, is refused, so verify-otp
\* returns at most one token for one issued challenge.
C1_ConsumedOnce == \A k \in 1..MaxSends : granted[k] <= 1

\* C2: of two verify-otp requests in flight with the code of the same challenge
\* only one gets past the checks to a token; the other finds the challenge
\* cleared.  So a request about to be sent its token is the only one for that
\* challenge, and no token was returned for it before.
C2_ConcurrentVerifiers ==
    \A r \in VerReqs :
       ver[r].pc = "saved" =>
          /\ granted[ver[r].chal] = 0
          /\ \A r2 \in VerReqs \ {r} :
                ver[r2].chal = ver[r].chal => ver[r2].pc \notin {"saving", "saved"}

\* C3 (expiry): a verify-otp with the correct code whose checks run at a time
\* greater than or equal to the challenge's expiry is answered 400 'OTP
\* expired', gets no token and leaves the stored challenge as it is.
C3_ExpiredAtOrAfterExpiry ==
    [][\A r \in VerReqs :
          ( /\ Checks(r)
            /\ ver[r].user.exists
            /\ ver[r].user.otp \in Codes
            /\ ver[r].otp = ver[r].user.otp
            /\ now >= ver[r].user.otpExpires )
          => /\ ver'[r].pc = "idle"
             /\ last'.status = 400
             /\ last'.error = "OTP expired"
             /\ last'.token = NoToken
             /\ users' = users]_vars

\* C4 (as claimed): the stored challenge is the pair written by the upsert
\* applied last, and no code of an earlier applied request verifies any more.
C4_EarlierCodesNeverVerify ==
    \A p \in Phones :
       users[p].exists =>
          /\ <<users[p].otp, users[p].otpExpires>> \in
                {<<lastPair[p].otp, lastPair[p].otpExpires>>, <<Null, NullDate>>}
          /\ \A c \in earlierCodes[p] : ~ Verifies(users[p], c, now)

\* C4 (last-writer-wins issuance): the stored challenge of a phone is exactly
\* the (code, expiry) pair written by the send-otp whose upsert was applied
\* last (or the cleared pair once verify-otp consumed it), never the code of
\* one request with the expiry of another, and the code of an earlier request
\* no longer verifies unless the last request drew the same code.
C4_LastWriterWins ==
    \A p \in Phones :
       users[p].exists =>
          /\ <<users[p].otp, users[p].otpExpires>> \in
                {<<lastPair[p].otp, lastPair[p].otpExpires>>, <<Null, NullDate>>}
          /\ \A c \in earlierCodes[p] \ {lastPair[p].otp} : ~ Verifies(users[p], c, now)

\* two send-otp upserts were applied for p1 with different codes; the second
\* code is the stored one and would verify, the first would not
C4_Witness ==
    /\ upserts >= 2
    /\ chalNo["p1"] >= 2
    /\ earlierCodes["p1"] \ {lastPair["p1"].otp} # {}
    /\ users["p1"].otp = lastPair["p1"].otp
    /\ Verifies(users["p1"], lastPair["p1"].otp, now)

\* C9: verify-otp answers 404 when no Identity exists for the phone, and 400
\* 'Invalid OTP' for every submitted code, null and absent included, when the
\* Identity has no active challenge; no token in either case.
C9_NoChallengeIsInvalid ==
    [][\A r \in VerReqs :
          Checks(r) =>
             /\ ~ ver[r].user.exists =>
                   /\ ver'[r].pc = "idle"
                   /\ last'.status = 404
                   /\ last'.token = NoToken
             /\ (ver[r].user.exists /\ ver[r].user.otp = Null) =>
                   /\ ver'[r].pc = "idle"
                   /\ last'.status = 400
                   /\ last'.error = "Invalid OTP"
                   /\ last'.token = NoToken]_vars

\* ---- protected routes (SpecApi)
\* the instant at which the tokens of InitApi were issued
IssuedAt == StartTime

\* C5: a token issued at time t is accepted by authMiddleware on every request
\* made strictly before t + 7 days and rejected (400) on every request made at
\* or after t + 7 days.
C5_SevenDayWindow ==
    LET q == apiLast.req IN
    (q.route \in Routes /\ q.tok \in tokens) =>
       /\ q.authAt < IssuedAt + JwtTtlMs => apiLast.status \notin {400, 401}
       /\ q.authAt >= IssuedAt + JwtTtlMs => apiLast.status = 400

\* a credential that is malformed, not signed with the key the service signs
\* with, or past its exp at time t
InvalidCredential(tok, t) ==
    \/ tok.kind = "garbage"
    \/ tok.kind = "jwt" /\ tok.key # SignSecret(jwtSecret)
    \/ tok.kind = "jwt" /\ t \div MsPerSec >= tok.exp

NothingDone(q) == ~ q.called /\ ~ q.wrote /\ ~ q.read

\* C6: a request to a protected route without a token is answered 401, one with
\* a malformed, wrongly signed or expired token 400, and in both cases the
\* request makes no model call and no History write or read; no request that is
\* past authMiddleware carries such a credential.
C6_RejectedBeforeAnyCall ==
    LET q == apiLast.req IN
    /\ (q.route \in Routes /\ q.tok = NoToken) =>
          apiLast.status = 401 /\ NothingDone(q)
    /\ (q.route \in Routes /\ InvalidCredential(q.tok, q.authAt)) =>
          apiLast.status = 400 /\ NothingDone(q)
    /\ apiLast.status \in {400, 401} => NothingDone(q)
    /\ api.pc # "idle" => api.tok # NoToken /\ ~ InvalidCredential(api.tok, api.authAt)

\* a token the service itself signed was presented to /api/analyze after its
\* exp and the request was turned away with 400
C6_Witness ==
    /\ apiLast.status = 400
    /\ apiLast.req.route = "analyze"
    /\ apiLast.req.tok \in tokens
    /\ apiLast.req.tok.key = SignSecret(jwtSecret)
    /\ apiLast.req.authAt \div MsPerSec >= apiLast.req.tok.exp
    /\ NothingDone(apiLast.req)

\* the result schema of each analysis: every required field is present
SchemaValid(route, out) ==
    /\ out.kind = "json"
    /\ route = "analyze" => out.hasScore /\ out.others
    /\ route = "webscan" => out.hasSources /\ \A i \in 1..Len(out.sources) : out.sources[i].hasScore
    /\ route = "summarize" => out.others

\* C7 (write-after-validate): in analyze, webscan and summarize a model call
\* that fails (rejected call, non-JSON text, or a missing required field) is
\* answered with the route's generic 500 and no History Entry is written.
C7_WriteAfterValidate ==
    /\ api.pc \in {"create", "reply"} => SchemaValid(api.route, api.out)
    /\ (apiLast.req.out.kind # "none" /\ ~ SchemaValid(apiLast.req.route, apiLast.req.out)) =>
          /\ apiLast.status = 500
          /\ apiLast.error = RouteError(apiLast.req.route)
          /\ ~ apiLast.req.wrote

\* C8: analyze writes a History Entry and answers 200 only when the parsed
\* output has every required numeric field of the similarity schema; when one
\* is missing it answers 'Similarity analysis failed' and writes nothing.
C8_SimilarityFieldsRequired ==
    LET q == apiLast.req IN
    /\ (q.route = "analyze" /\ (q.wrote \/ apiLast.status = 200)) =>
          q.out.hasScore /\ q.out.others
    /\ (q.route = "analyze" /\ q.out.kind = "json" /\ ~ (q.out.hasScore /\ q.out.others)) =>
          apiLast.error = "Similarity analysis failed" /\ ~ q.wrote
    /\ (api.route = "analyze" /\ api.wrote) => api.out.hasScore /\ api.out.others

\* C10: analyze invokes the model, and writes a History Entry, only for a
\* request that has content (file or text) on the reference side and on the
\* target side.
C10_ContentOnEachSide ==
    /\ (api.route = "analyze" /\ (api.called \/ api.wrote)) => api.refSide /\ api.tgtSide
    /\ (apiLast.req.route = "analyze" /\ (apiLast.req.called \/ apiLast.req.wrote)) =>
          apiLast.req.refSide /\ apiLast.req.tgtSide

\* ---- history entries (SpecApi)
\* a natural number written in decimal
Digit(d) ==
    CASE d = 0 -> "0" [] d = 1 -> "1" [] d = 2 -> "2" [] d = 3 -> "3" [] d = 4 -> "4"
      [] d = 5 -> "5" [] d = 6 -> "6" [] d = 7 -> "7" [] d = 8 -> "8" [] OTHER -> "9"
RECURSIVE Decimal(_)
Decimal(n) == IF n < 10 THEN Digit(n) ELSE Decimal(n \div 10) \o Digit(n % 10)

\* the entry History.create was given is the newest entry of the ledger
Written == api.wrote => Len(history) > 0 /\ history[Len(history)] = api.entry

\* C11: the History Entry analyze writes for a similarity_score s has score =
\* s in decimal and verdict 'High' iff s >= 80, 'Moderate' iff 50 <= s < 80,
\* 'Low' otherwise.
C11_SimilarityVerdict ==
    (api.route = "analyze" /\ api.pc \in {"create", "reply"}) =>
       LET s == api.out.score
           e == api.entry
       IN /\ Written
          /\ e.type = "Similarity Check"
          /\ e.score = Decimal(s)
          /\ e.verdict = "High" <=> s >= 80
          /\ e.verdict = "Moderate" <=> (50 <= s /\ s < 80)
          /\ e.verdict = "Low" <=> s < 50

\* analyze has written the entry for a score of exactly 80: 'High'
C11_Witness ==
    /\ api.route = "analyze"
    /\ api.pc = "reply"
    /\ api.out.score = 80
    /\ history[Len(history)].verdict = "High"
    /\ history[Len(history)].score = "80"

\* C12: the History Entry webscan writes has score = the first source's score
\* in decimal, '0' when there is no source; verdict 'High Risk' iff the first
\* source's score is >= 80 and 'Pass' otherwise; details '<N> sources found'.
C12_WebScanEntry ==
    (api.route = "webscan" /\ api.pc \in {"create", "reply"}) =>
       LET src == api.out.sources
           e == api.entry
       IN /\ Written
          /\ e.type = "Web Scan"
          /\ Len(src) = 0 => e.score = "0" /\ e.verdict = "Pass"
          /\ (Len(src) > 0 /\ src[1].hasScore) => e.score = Decimal(src[1].score)
          /\ e.verdict = "High Risk" <=> (Len(src) > 0 /\ src[1].hasScore /\ src[1].score >= 80)
          /\ e.verdict \in {"High Risk", "Pass"}
          /\ e.details = Decimal(Len(src)) \o " sources found"

\* webscan has written the entry for one source of score exactly 80
C12_Witness ==
    /\ api.route = "webscan"
    /\ api.pc = "reply"
    /\ Len(api.out.sources) = 1
    /\ api.out.sources[1].score = 80
    /\ history[Len(history)].verdict = "High Risk"
    /\ history[Len(history)].details = "1 sources found"

\* ---- one entry per successful analysis (SpecApi)
Analyses == {"analyze", "webscan", "summarize"}
\* this step sends the response of a protected request
Responds ==
    \/ api.pc = "idle" /\ apiCount' # apiCount /\ api'.pc = "idle"
    \/ api.pc # "idle" /\ api'.pc = "idle"
\* this step appends the request's entry, owned by the token's identity
WritesOwnEntry ==
    /\ api.pc = "create"
    /\ api.route \in Analyses
    /\ history' = Append(history, api.entry)
    /\ api.entry.userId = api.tok.id
    /\ api.entry.userId = api.user

\* C16: an analysis request is answered with success iff exactly one History
\* Entry, owned by the authenticated identity, was written for it, the write
\* completing before the response: the ledger changes only by the request
\* appending its own entry with the response still to come, the response that
\* follows is the success response and writes nothing more, and a success
\* response is sent only after that write.
C16_OneEntryPerSuccess ==
    [][ /\ history' # history => WritesOwnEntry /\ api'.pc = "reply" /\ apiLast' = apiLast
        /\ (api.pc # "reply" /\ api'.pc = "reply") => WritesOwnEntry
        /\ api.pc = "reply" => history' = history
        /\ (api.pc = "reply" /\ api' # api) => Responds /\ apiLast'.status = 200
        /\ (Responds /\ apiLast'.req.route \in Analyses /\ apiLast'.status = 200)
              => api.pc = "reply" ]_vars

\* a summarize request was answered with success and its one entry is in the ledger
C16_Witness ==
    /\ apiLast.status = 200
    /\ apiLast.req.route = "summarize"
    /\ Len(history) = 1
    /\ history[1].userId = apiLast.req.tok.id
    /\ history[1].type = "AI Summary"

\* ---- signing and verifying keys (SpecApi)
\* C17: whatever the configuration of the secret, unset included, the key
\* verify-otp signs with is the key authMiddleware verifies with, and a token
\* presented at the instant it was issued is accepted.
C17_FreshTokenAccepted ==
    LET q == apiLast.req IN
    (q.route \in Routes /\ q.tok \in tokens /\ q.authAt = IssuedAt) =>
       /\ q.tok.key = jwtSecret
       /\ apiLast.status \notin {400, 401}

\* ---- clearing and issuing (Spec)
\* challenge number k is in the store, neither cleared nor replaced
StoredChal(k) == \E p \in Phones : chalNo[p] = k /\ users[p].otp # Null

\* C15: clearing the challenge and issuing the token are one unit: whenever a
\* token has been returned for a challenge that challenge is no longer in the
\* store, a verify-otp request returns a token only from the point where its
\* clear is persisted, every persisted clear belongs to a request that has
\* reached that point, and from that point the request's only outcome is the
\* success reply carrying a token.
C15_ClearThenIssue ==
    /\ [](\A k \in 1..MaxSends : granted[k] > 0 => ~ StoredChal(k))
    /\ [][\A r \in VerReqs :
            /\ (ver[r].pc # "idle" /\ ver'[r].pc = "idle" /\ last'.token # NoToken)
                  => /\ ver[r].pc = "saved"
                     /\ \A p \in Phones :
                           ~ (chalNo'[p] = ver[r].chal /\ users'[p].otp # Null)
            /\ (ver[r].pc = "saving" /\ ver'[r].pc = "saved")
                  => /\ users'[ver[r].phone].otp = Null
                     /\ users'[ver[r].phone].otpExpires = NullDate
            /\ (ver[r].pc = "saved" /\ ver'[r] # ver[r])
                  => /\ last'.status = 200
                     /\ last'.token.kind = "jwt"
                     /\ last'.chal = ver[r].chal
            /\ \A p \in Phones :
                  (users[p].otp # Null /\ users'[p].otp = Null)
                     => \E q \in VerReqs : ver[q].pc = "saving" /\ ver'[q].pc = "saved"
       ]_vars

\* a token has been returned for a challenge and the store holds no code
C15_Witness ==
    /\ last.status = 200
    /\ last.token.kind = "jwt"
    /\ last.chal > 0
    /\ granted[last.chal] = 1
    /\ users["p1"].exists
    /\ users["p1"].otp = Null
    /\ users["p1"].otpExpires = NullDate

\* ---- a newer challenge and an older verification (Spec)
\* C19: a challenge stays verifiable until it is itself verified, replaced or
\* expired: while the latest challenge of a phone has yielded no token and no
\* verification of that very challenge has persisted its clear, the store
\* still holds its code and expiry, whatever else runs concurrently.
C19_NewerChallengeSurvives ==
    \A p \in Phones :
       LET k == chalNo[p] IN
       (/\ k > 0
        /\ granted[k] = 0
        /\ \A r \in VerReqs : ~ (ver[r].pc = "saved" /\ ver[r].chal = k))
       => /\ users[p].otp = lastPair[p].otp
          /\ users[p].otpExpires = lastPair[p].otpExpires

\* ---- rejected verifications (Spec)
\* this step answers request r with one of the three rejections of lines 135-137
Rejects(r) ==
    /\ ver[r].pc = "found"
    /\ ver'[r].pc = "idle"
    /\ last'.status \in {404, 400}

\* C20: a verify-otp that is rejected (unknown phone, wrong code, expired
\* challenge) leaves the Credential Store unchanged: no Identity is created
\* and no stored code or expiry is cleared or altered, so a code that
\* verified before the rejection verifies after it.
C20_RejectionLeavesStore ==
    [][\A r \in VerReqs :
          Rejects(r) =>
             /\ users' = users
             /\ nextId' = nextId
             /\ \A p \in Phones, c \in Codes :
                   Verifies(users[p], c, now) => Verifies(users'[p], c, now')]_vars

\* a wrong code was just refused and the stored code still verifies
C20_Witness ==
    /\ last.status = 400
    /\ last.error = "Invalid OTP"
    /\ users["p1"].exists
    /\ users["p1"].otp \in Codes
    /\ last.otp # users["p1"].otp
    /\ last.chal = chalNo["p1"]
    /\ Verifies(users["p1"], lastPair["p1"].otp, now)

\* ---- reading the ledger (SpecLedger)
\* this step answers GET /api/history with the list the store returned
Lists == api.pc = "find" /\ api'.pc = "idle" /\ apiLast'.status = 200

\* C13: GET /api/history returns the caller's entries in strictly descending
\* creation-time order, each entry newer than the one after it, and answers
\* with success and an empty list when the caller has no entry.
C13_StrictlyNewestFirst ==
    [][Lists =>
         LET l == apiLast'.list IN
         /\ \A i, j \in 1..Len(l) : i < j => l[i].createdAt > l[j].createdAt
         /\ (\A i \in 1..Len(history) : history[i].userId # api.tok.id) => l = <<>>]_vars

\* C14: GET /api/history returns exactly the entries whose owner is the
\* identity carried by the presented token: each of that identity's entries
\* once, and no entry of any other identity.
C14_LedgerIsolation ==
    [][Lists =>
         LET l == apiLast'.list
             mine == {i \in 1..Len(history) : history[i].userId = api.tok.id}
         IN /\ \A j \in 1..Len(l) : l[j].userId = api.tok.id
            /\ \E f \in [1..Len(l) -> mine] :
                  /\ \A i \in mine : \E j \in 1..Len(l) : f[j] = i
                  /\ \A j \in 1..Len(l) : l[j] = history[f[j]]
            /\ Len(l) = Cardinality(mine)]_vars

\* a caller was given its one entry while the ledger also holds another's
C14_Witness ==
    /\ apiLast.req.route = "history"
    /\ apiLast.status = 200
    /\ Len(apiLast.list) = 1
    /\ apiLast.list[1].userId = apiLast.req.tok.id
    /\ Len(history) = 2
    /\ \E i \in 1..2 : history[i].userId # apiLast.req.tok.id

\* ---- the ledger only grows (SpecLedger)
\* C18: History is append-only and owned: every step leaves each existing
\* entry in place with all its fields, and every entry's owner is an Identity
\* of the Credential Store.
C18_AppendOnly ==
    /\ [][/\ Len(history') >= Len(history)
          /\ \A i \in 1..Len(history) : history'[i] = history[i]]_vars
    /\ [](\A i \in 1..Len(history) :
             \E p \in Phones : users[p].exists /\ users[p].id = history[i].userId)

\* the ledger holds entries of both Identities after a read
C18_Witness ==
    /\ Len(history) = 2
    /\ history[1].userId # history[2].userId
    /\ apiLast.req.route = "history"
    /\ apiLast.req.read

====
